---- MODULE Spec2Model ----
(***************************************************************************)
(* Cart / order / inventory core of the e-commerce backend                 *)
(* (cart.controller, order.controller, product.controller, cart.model,     *)
(* product.model).  Every database call (findById, findOne, create, save,  *)
(* findOneAndUpdate) is one atomic step on one document; createOrder and   *)
(* cancelOrder, which read and write product stock in separate calls, are  *)
(* modelled call by call so that requests interleave at every await.       *)
(*                                                                         *)
(* Two client components are modelled beside it: the storefront's          *)
(* CartProvider (CartContext.tsx: the local cart, its sync at sign-in and   *)
(* the optimistic cart mutations over the react-query cache) and the       *)
(* document panel's UploadFolderDialog.  Their servers are their           *)
(* environment: every call they make resolves or rejects.                  *)
(***************************************************************************)
EXTENDS Integers, Sequences, FiniteSets, TLC

VARIABLES products, carts, orders, req, resp, before,
          isAuthenticated, localCart, sync, cartQuery, mutations,
          open, isUploading, folderPath, error, toast, upload

\* the state of CartProvider and the state of UploadFolderDialog
provider == <<isAuthenticated, localCart, sync, cartQuery, mutations>>
dialog == <<open, isUploading, folderPath, error, toast, upload>>

vars == <<products, carts, orders, req, resp, before, provider, dialog>>

(* ------------------------------ bounds --------------------------------- *)
MaxStock == 2
MaxQty == 2
MaxLines == 2
MaxOrders == 2
MaxCartQty == 3
MaxLifecycleOrders == 1
MaxUiQty == 2

(* ------------------------------ universe ------------------------------- *)
Users == {"alice", "bob", "admin"}
Shoppers == {"alice"}
ProductIds == {"p1", "p2"}
Slots == {1, 2}
Statuses == {"pending", "processing", "shipped", "delivered", "cancelled"}

CatalogPrice(p) == IF p = "p1" THEN 20 ELSE 60

Role(u) == IF u = "admin" THEN "admin" ELSE "user"

\* quantities a request body can carry for the cart routes (no validation
\* middleware is mounted on them)
CartQtyInputs == {0 - 1, 0} \cup (1..(MaxQty + 1))

\* a rating is a quotient of two doubles holding whole numbers; the model
\* keeps it exact, as a fraction in lowest terms
NoRating == [num |-> 0, den |-> 1]

NoProduct ==
  [exists |-> FALSE, stock |-> 0, price |-> 0, reviews |-> <<>>,
   rating |-> NoRating, numReviews |-> 0]
NoCart == [exists |-> FALSE, items |-> <<>>, totalPrice |-> 0]
NewCart == [exists |-> TRUE, items |-> <<>>, totalPrice |-> 0]

\* unit prices a client can put in an order line (the request's prices are
\* stored as sent)
ClientPrices(p) == {CatalogPrice(p)}

LineItems ==
  UNION {[product : {p}, quantity : 1..MaxQty, price : ClientPrices(p)] :
           p \in ProductIds}

OrderItemInputs ==
  UNION {[1..n -> LineItems] : n \in 0..MaxLines}

(* ----------------------------- responses ------------------------------- *)
\* the response sent by the step that led to the state (NoResp: none sent)
NoResp == [op |-> "none", code |-> 0, err |-> "none"]

Response(op, code, err) == [op |-> op, code |-> code, err |-> err]

(* ------------------------------ requests ------------------------------- *)
IdleReq ==
  [pc |-> "idle", user |-> "none", items |-> <<>>, oid |-> 0, i |-> 0,
   local |-> 0]

Busy == \E r \in Slots : req[r].pc # "idle"

\* a new request is served in the first free slot
FreeSlot(r) ==
  /\ req[r].pc = "idle"
  /\ \A s \in Slots : s < r => req[s].pc # "idle"

\* stock of every product as the request found it (-1: no such product)
StockSnapshot ==
  [p \in ProductIds |-> IF products[p].exists THEN products[p].stock ELSE 0 - 1]

(* --------------------------- model helpers ----------------------------- *)
\* a total that forgets the quantities
RECURSIVE CalculateTotalPrice_NoQuantity(_)
CalculateTotalPrice_NoQuantity(items) ==
  IF items = <<>> THEN 0
  ELSE CalculateTotalPrice_NoQuantity(SubSeq(items, 1, Len(items) - 1))
       + items[Len(items)].price

\* cartSchema.methods.calculateTotalPrice
RECURSIVE CalculateTotalPrice(_)
CalculateTotalPrice(items) ==
  IF items = <<>> THEN 0
  ELSE CalculateTotalPrice(SubSeq(items, 1, Len(items) - 1))
       + items[Len(items)].price * items[Len(items)].quantity

\* a comparison that never matches (an ObjectId compared with a string)
FindIndex_NoMatch(items, p) == 0 - 1

\* Array.prototype.findIndex(item => item.product.toString() === productId)
FindIndex(items, p) ==
  IF \E k \in 1..Len(items) : items[k].product = p
  THEN CHOOSE k \in 1..Len(items) :
         /\ items[k].product = p
         /\ \A j \in 1..(k - 1) : items[j].product # p
  ELSE 0 - 1

\* a filter whose comparison never matches, so that it removes nothing
FilterOut_NoMatch(items, p) == items

\* Array.prototype.filter(item => item.product.toString() !== productId)
RECURSIVE FilterOut(_, _)
FilterOut(items, p) ==
  IF items = <<>> THEN <<>>
  ELSE IF items[1].product # p
       THEN <<items[1]>> \o FilterOut(Tail(items), p)
       ELSE FilterOut(Tail(items), p)

\* an update that adds the quantity to the item's
SetQuantity_Add(items, k, q) == [items EXCEPT ![k].quantity = @ + q]

\* cart.items[itemIndex].quantity = quantity
SetQuantity(items, k, q) == [items EXCEPT ![k].quantity = q]

\* cartItemSchema validators run by cart.save()
CartItemsValid(items) ==
  \A k \in 1..Len(items) : items[k].quantity >= 1 /\ items[k].price >= 0

\* a schema without the min validator
StockValid_NoMin(stock) == TRUE

\* productSchema.stock min validator run by product.save()
StockValid(stock) == stock >= 0

\* a check that only refuses a sold-out product
CartStockShort_SoldOut(stock, quantity) == stock <= 0

\* product.stock < quantity in addToCart and updateCartItem
CartStockShort(stock, quantity) == stock < quantity

\* a verification that lets every quantity through
OrderStockShort_Never(stock, quantity) == FALSE

\* product.stock < item.quantity in createOrder
OrderStockShort(stock, quantity) == stock < quantity

\* one unit taken per line whatever the quantity
Decrement_ByOne(stock, quantity) == stock - 1

\* product.stock -= item.quantity in createOrder
Decrement(stock, quantity) == stock - quantity

\* one unit given back per line whatever the quantity
Restore_ByOne(stock, quantity) == stock + 1

\* product.stock += item.quantity in cancelOrder
Restore(stock, quantity) == stock + quantity

\* { $set: { items: [], totalPrice: 0 } } in createOrder
ClearedCart(cart) == [cart EXCEPT !.items = <<>>, !.totalPrice = 0]

\* cart.save(): pre('save') recomputes totalPrice, then the document is stored
SavedCart(items) ==
  [exists |-> TRUE, items |-> items, totalPrice |-> CalculateTotalPrice(items)]

(* ------------------------------- Init ---------------------------------- *)
\* useState<Record<string, number>>({})
EmptyLocalCart == [p \in {} |-> 0]

\* syncCart: no sync started
IdleSync == [state |-> "idle", sent |-> EmptyLocalCart, calls |-> EmptyLocalCart]

\* mutations of the provider that can be in flight together
MutationSlots == {1, 2}

IdleMutation ==
  [state |-> "idle", kind |-> "none", productId |-> "none", quantity |-> 0,
   previousCart |-> <<>>]

\* the provider at its first render, nobody signed in: the cart query is
\* disabled and its data defaults to []
ProviderInit ==
  /\ isAuthenticated = FALSE
  /\ localCart = EmptyLocalCart
  /\ sync = IdleSync
  /\ cartQuery = [data |-> <<>>, invalidated |-> FALSE, fetching |-> FALSE]
  /\ mutations = [m \in MutationSlots |-> IdleMutation]

\* error === null
NoError == "null"

\* uploadFolder(folderPath): the call and how it stands
NoUpload == [status |-> "none", path |-> ""]

\* the dialog's useState initial values; no toast shown, no upload made
DialogInit ==
  /\ open = FALSE
  /\ isUploading = FALSE
  /\ folderPath = ""
  /\ error = NoError
  /\ toast = "none"
  /\ upload = NoUpload

Init ==
  /\ ProviderInit
  /\ DialogInit
  /\ \E s \in 1..MaxStock :
       products = [p \in ProductIds |->
                     [exists |-> TRUE, stock |-> s, price |-> CatalogPrice(p),
                      reviews |-> <<>>, rating |-> NoRating, numReviews |-> 0]]
  /\ carts = [u \in Users |-> NoCart]
  /\ orders = <<>>
  /\ req = [r \in Slots |-> IdleReq]
  /\ resp = NoResp
  /\ before = StockSnapshot

\* every product fully stocked
InitFull == Init /\ \A p \in ProductIds : products[p].stock = MaxStock

\* one unit of every product left
InitLast == Init /\ \A p \in ProductIds : products[p].stock = 1

(* --------------------------- cart controller --------------------------- *)
\* a merge that also takes the product's current price
MergedItem_Repriced(item, q, product) ==
  [item EXCEPT !.quantity = @ + q, !.price = product.price]

\* cart.items[existingItemIndex].quantity += quantity
MergedItem(item, q, product) == [item EXCEPT !.quantity = @ + q]

\* addToCart: POST /api/cart/items
AddToCart(u, p, q) ==
  LET product == products[p]
      cart == IF carts[u].exists THEN carts[u] ELSE NewCart
      existingItemIndex == FindIndex(cart.items, p)
      items1 == IF existingItemIndex # 0 - 1
                THEN [cart.items EXCEPT
                        ![existingItemIndex] = MergedItem(@, q, product)]
                ELSE Append(cart.items,
                            [product |-> p, quantity |-> q, price |-> product.price])
  IN /\ UNCHANGED <<products, orders, req>>
     /\ IF ~product.exists
        THEN /\ carts' = carts
             /\ resp' = Response("addToCart", 404, "NotFound")
        ELSE IF CartStockShort(product.stock, q)
        THEN /\ carts' = carts
             /\ resp' = Response("addToCart", 400, "InsufficientStock")
        ELSE IF CartItemsValid(items1)
        THEN /\ \A k \in 1..Len(items1) : items1[k].quantity <= MaxCartQty
             /\ carts' = [carts EXCEPT ![u] = SavedCart(items1)]
             /\ resp' = Response("addToCart", 200, "OK")
        ELSE /\ carts' = [carts EXCEPT ![u] = cart]
             /\ resp' = Response("addToCart", 500, "ServerError")

\* updateCartItem: PUT /api/cart/items/:productId
UpdateCartItem(u, p, q) ==
  LET product == products[p]
      cart == carts[u]
      itemIndex == FindIndex(cart.items, p)
      items1 == SetQuantity(cart.items, itemIndex, q)
  IN /\ UNCHANGED <<products, orders, req>>
     /\ IF q < 1
        THEN /\ carts' = carts
             /\ resp' = Response("updateCartItem", 400, "ValidationError")
        ELSE IF ~product.exists
        THEN /\ carts' = carts
             /\ resp' = Response("updateCartItem", 404, "NotFound")
        ELSE IF CartStockShort(product.stock, q)
        THEN /\ carts' = carts
             /\ resp' = Response("updateCartItem", 400, "InsufficientStock")
        ELSE IF ~cart.exists \/ itemIndex = 0 - 1
        THEN /\ carts' = carts
             /\ resp' = Response("updateCartItem", 404, "NotFound")
        ELSE /\ carts' = [carts EXCEPT ![u] = SavedCart(items1)]
             /\ resp' = Response("updateCartItem", 200, "OK")

\* removeFromCart: DELETE /api/cart/items/:productId
RemoveFromCart(u, p) ==
  /\ UNCHANGED <<products, orders, req>>
  /\ IF ~carts[u].exists
     THEN /\ carts' = carts
          /\ resp' = Response("removeFromCart", 404, "NotFound")
     ELSE /\ carts' = [carts EXCEPT ![u] = SavedCart(FilterOut(carts[u].items, p))]
          /\ resp' = Response("removeFromCart", 200, "OK")

\* clearCart: DELETE /api/cart
ClearCart(u) ==
  /\ UNCHANGED <<products, orders, req>>
  /\ IF ~carts[u].exists
     THEN /\ carts' = carts
          /\ resp' = Response("clearCart", 404, "NotFound")
     ELSE /\ carts' = [carts EXCEPT ![u] = SavedCart(<<>>)]
          /\ resp' = Response("clearCart", 200, "OK")

CartActions ==
  \/ \E u \in Shoppers, p \in ProductIds, q \in CartQtyInputs : AddToCart(u, p, q)
  \/ \E u \in Shoppers, p \in ProductIds, q \in CartQtyInputs : UpdateCartItem(u, p, q)
  \/ \E u \in Shoppers, p \in ProductIds : RemoveFromCart(u, p)
  \/ \E u \in Shoppers : ClearCart(u)

(* --------------------------- order controller -------------------------- *)
\* const taxRate = 0.1, in percent
TaxRatePercent == 10

\* free shipping over $100 ...
FreeShippingOver == 100

\* ... otherwise $10
ShippingFee == 10

\* orderItems.reduce((acc, item) => acc + item.price * item.quantity, 0)
RECURSIVE ItemsPrice(_)
ItemsPrice(items) ==
  IF items = <<>> THEN 0
  ELSE ItemsPrice(SubSeq(items, 1, Len(items) - 1))
       + items[Len(items)].price * items[Len(items)].quantity

\* itemsPrice * taxRate.  Amounts are whole numbers of currency units and
\* every price is a multiple of ten: for such an itemsPrice n the double
\* product n * 0.1 is exactly n / 10 (0.1 is stored as 0.1 * (1 + 2^-54), and
\* (n / 10) * (1 + 2^-54) rounds to n / 10), so the division below is exact.
TaxPrice(itemsPrice) == (itemsPrice * TaxRatePercent) \div 100

\* a threshold that gives free shipping at exactly 100
ShippingPrice_FreeAtThreshold(itemsPrice) ==
  IF itemsPrice >= FreeShippingOver THEN 0 ELSE ShippingFee

\* itemsPrice > 100 ? 0 : 10
ShippingPrice(itemsPrice) ==
  IF itemsPrice > FreeShippingOver THEN 0 ELSE ShippingFee

\* itemsPrice + taxPrice + shippingPrice
TotalPrice(itemsPrice, taxPrice, shippingPrice) ==
  itemsPrice + taxPrice + shippingPrice

\* a stored order as Order.create leaves it
NewOrder(u, items, itemsPrice, taxPrice, shippingPrice, totalPrice) ==
  [user |-> u, orderItems |-> items, status |-> "pending",
   isPaid |-> FALSE, isDelivered |-> FALSE, paymentResult |-> "none",
   itemsPrice |-> itemsPrice, taxPrice |-> taxPrice,
   shippingPrice |-> shippingPrice, totalPrice |-> totalPrice]

OrderIds == 1..MaxOrders

\* req.body.id of the payment confirmation sent to PUT /api/orders/:id/pay
PaymentIds == {"pay1", "pay2"}

OrderExists(oid) == oid <= Len(orders)

\* a handler without the ownership check
NotOwnerNorAdmin_Never(order, u) == FALSE

\* order.user.toString() !== req.user._id.toString() && req.user.role !== 'admin'
NotOwnerNorAdmin(order, u) == order.user # u /\ Role(u) # "admin"

\* a check that forgets the shipped orders
CannotCancel_DeliveredOnly(status) == status = "delivered"

\* order.status === 'delivered' || order.status === 'shipped'
CannotCancel(status) == status = "delivered" \/ status = "shipped"

\* requests that passed the empty check and have not yet stored their order
PendingCreates ==
  Cardinality({r \in Slots : req[r].pc \in {"co_verify", "co_create"}})

Finish(r, response) ==
  /\ req' = [req EXCEPT ![r] = IdleReq]
  /\ resp' = response

\* createOrder: POST /api/orders, up to the empty-list check
CreateOrderStart(r, u, items) ==
  /\ FreeSlot(r)
  /\ Len(orders) + PendingCreates < MaxOrders
  /\ UNCHANGED <<products, carts, orders>>
  /\ IF Len(items) = 0
     THEN /\ req' = req
          /\ resp' = Response("createOrder", 400, "ValidationError")
     ELSE /\ req' = [req EXCEPT ![r] =
                       [IdleReq EXCEPT !.pc = "co_verify", !.user = u,
                                       !.items = items, !.i = 1]]
          /\ resp' = NoResp

\* createOrder: one Product.findById of the verification loop
CreateOrderVerify(r) ==
  LET item == req[r].items[req[r].i]
      product == products[item.product]
  IN /\ req[r].pc = "co_verify"
     /\ UNCHANGED <<products, carts, orders>>
     /\ IF ~product.exists
        THEN Finish(r, Response("createOrder", 404, "NotFound"))
        ELSE IF OrderStockShort(product.stock, item.quantity)
        THEN Finish(r, Response("createOrder", 400, "InsufficientStock"))
        ELSE /\ req' = [req EXCEPT ![r].i = @ + 1,
                                   ![r].pc = IF req[r].i = Len(req[r].items)
                                             THEN "co_create" ELSE "co_verify"]
             /\ resp' = NoResp

\* createOrder: the prices, then Order.create
CreateOrderStore(r) ==
  /\ req[r].pc = "co_create"
  /\ LET itemsPrice == ItemsPrice(req[r].items)
         taxPrice == TaxPrice(itemsPrice)
         shippingPrice == ShippingPrice(itemsPrice)
         totalPrice == TotalPrice(itemsPrice, taxPrice, shippingPrice)
     IN orders' = Append(orders, NewOrder(req[r].user, req[r].items, itemsPrice,
                                          taxPrice, shippingPrice, totalPrice))
  /\ req' = [req EXCEPT ![r].pc = "co_read", ![r].i = 1]
  /\ resp' = NoResp
  /\ UNCHANGED <<products, carts>>

\* createOrder: Product.findById of the stock loop; product.stock -= quantity
CreateOrderRead(r) ==
  LET item == req[r].items[req[r].i]
      product == products[item.product]
  IN /\ req[r].pc = "co_read"
     /\ resp' = NoResp
     /\ UNCHANGED <<products, carts, orders>>
     /\ IF product.exists
        THEN req' = [req EXCEPT ![r].pc = "co_save",
                                ![r].local = Decrement(product.stock, item.quantity)]
        ELSE req' = [req EXCEPT ![r].i = @ + 1,
                                ![r].pc = IF req[r].i = Len(req[r].items)
                                          THEN "co_clear" ELSE "co_read"]

\* createOrder: product.save() of the stock loop
CreateOrderSave(r) ==
  LET item == req[r].items[req[r].i]
      product == products[item.product]
  IN /\ req[r].pc = "co_save"
     /\ UNCHANGED <<carts, orders>>
     /\ IF StockValid(req[r].local) /\ product.exists
        THEN /\ products' = [products EXCEPT ![item.product].stock = req[r].local]
             /\ req' = [req EXCEPT ![r].i = @ + 1, ![r].local = 0,
                                   ![r].pc = IF req[r].i = Len(req[r].items)
                                             THEN "co_clear" ELSE "co_read"]
             /\ resp' = NoResp
        ELSE /\ products' = products
             /\ Finish(r, Response("createOrder", 500, "ServerError"))

\* createOrder: Cart.findOneAndUpdate({user}, {$set: {items: [], totalPrice: 0}})
CreateOrderClear(r) ==
  /\ req[r].pc = "co_clear"
  /\ carts' = IF carts[req[r].user].exists
              THEN [carts EXCEPT ![req[r].user] = ClearedCart(@)]
              ELSE carts
  /\ Finish(r, Response("createOrder", 201, "OK"))
  /\ UNCHANGED <<products, orders>>

\* cancelOrder: PUT /api/orders/:id/cancel, up to order.status = 'cancelled'
CancelOrderStart(r, u, oid) ==
  /\ FreeSlot(r)
  /\ UNCHANGED <<products, carts, orders>>
  /\ IF ~OrderExists(oid)
     THEN /\ req' = req
          /\ resp' = Response("cancelOrder", 404, "NotFound")
     ELSE LET order == orders[oid]
              started == [IdleReq EXCEPT !.pc = "ca_read",
                                         !.items = order.orderItems, !.oid = oid,
                                         !.i = 1]
          IN IF NotOwnerNorAdmin(order, u)
             THEN /\ req' = req
                  /\ resp' = Response("cancelOrder", 403, "Forbidden")
             ELSE IF CannotCancel(order.status)
             THEN /\ req' = req
                  /\ resp' = Response("cancelOrder", 400, "InvalidState")
             ELSE /\ req' = [req EXCEPT ![r] = started]
                  /\ resp' = NoResp

\* cancelOrder: Product.findById of the restore loop; product.stock += quantity
CancelOrderRead(r) ==
  LET item == req[r].items[req[r].i]
      product == products[item.product]
  IN /\ req[r].pc = "ca_read"
     /\ resp' = NoResp
     /\ UNCHANGED <<products, carts, orders>>
     /\ IF product.exists
        THEN /\ Restore(product.stock, item.quantity) <= MaxStock
             /\ req' = [req EXCEPT ![r].pc = "ca_save",
                                   ![r].local = Restore(product.stock, item.quantity)]
        ELSE req' = [req EXCEPT ![r].i = @ + 1,
                                ![r].pc = IF req[r].i = Len(req[r].items)
                                          THEN "ca_order" ELSE "ca_read"]

\* cancelOrder: product.save() of the restore loop
CancelOrderSave(r) ==
  LET item == req[r].items[req[r].i]
      product == products[item.product]
  IN /\ req[r].pc = "ca_save"
     /\ UNCHANGED <<carts, orders>>
     /\ IF StockValid(req[r].local) /\ product.exists
        THEN /\ products' = [products EXCEPT ![item.product].stock = req[r].local]
             /\ req' = [req EXCEPT ![r].i = @ + 1, ![r].local = 0,
                                   ![r].pc = IF req[r].i = Len(req[r].items)
                                             THEN "ca_order" ELSE "ca_read"]
             /\ resp' = NoResp
        ELSE /\ products' = products
             /\ Finish(r, Response("cancelOrder", 500, "ServerError"))

\* cancelOrder: order.save() writing the modified status
CancelOrderStore(r) ==
  /\ req[r].pc = "ca_order"
  /\ orders' = [orders EXCEPT ![req[r].oid].status = "cancelled"]
  /\ Finish(r, Response("cancelOrder", 200, "OK"))
  /\ UNCHANGED <<products, carts>>

\* getOrderById: GET /api/orders/:id
GetOrderById(u, oid) ==
  /\ UNCHANGED <<products, carts, orders, req>>
  /\ IF ~OrderExists(oid)
     THEN resp' = Response("getOrderById", 404, "NotFound")
     ELSE IF NotOwnerNorAdmin(orders[oid], u)
     THEN resp' = Response("getOrderById", 403, "Forbidden")
     ELSE resp' = Response("getOrderById", 200, "OK")

\* a payment that leaves the status as it was
PaidOrder_KeepStatus(order, pay) ==
  [order EXCEPT !.isPaid = TRUE, !.paymentResult = pay]

\* order.isPaid = true; order.status = 'processing'; order.paymentResult = ...
PaidOrder(order, pay) ==
  [order EXCEPT !.isPaid = TRUE, !.status = "processing", !.paymentResult = pay]

\* updateOrderToPaid: PUT /api/orders/:id/pay
UpdateOrderToPaid(u, oid, pay) ==
  /\ UNCHANGED <<products, carts, req>>
  /\ IF ~OrderExists(oid)
     THEN /\ orders' = orders
          /\ resp' = Response("updateOrderToPaid", 404, "NotFound")
     ELSE /\ orders' = [orders EXCEPT ![oid] = PaidOrder(@, pay)]
          /\ resp' = Response("updateOrderToPaid", 200, "OK")

\* a handler without the role check
NotAdmin_Never(u) == FALSE

\* req.user.role !== 'admin'
NotAdmin(u) == Role(u) # "admin"

\* a delivery that also makes the admin the order's user
DeliveredOrder_TakesOrder(order) ==
  [order EXCEPT !.isDelivered = TRUE, !.status = "delivered", !.user = "admin"]

\* order.isDelivered = true; order.status = 'delivered'
DeliveredOrder(order) ==
  [order EXCEPT !.isDelivered = TRUE, !.status = "delivered"]

\* a status update that forgets the delivered flag
StatusOrder_StatusOnly(order, status) == [order EXCEPT !.status = status]

\* order.status = status; if (status === 'delivered') order.isDelivered = true
StatusOrder(order, status) ==
  [order EXCEPT !.status = status,
                !.isDelivered = IF status = "delivered" THEN TRUE ELSE @]

\* updateOrderToDelivered: PUT /api/orders/:id/deliver
UpdateOrderToDelivered(u, oid) ==
  /\ UNCHANGED <<products, carts, req>>
  /\ IF NotAdmin(u)
     THEN /\ orders' = orders
          /\ resp' = Response("updateOrderToDelivered", 403, "Forbidden")
     ELSE IF ~OrderExists(oid)
     THEN /\ orders' = orders
          /\ resp' = Response("updateOrderToDelivered", 404, "NotFound")
     ELSE /\ orders' = [orders EXCEPT ![oid] = DeliveredOrder(@)]
          /\ resp' = Response("updateOrderToDelivered", 200, "OK")

\* updateOrderStatus: PUT /api/orders/:id/status
UpdateOrderStatus(u, oid, status) ==
  /\ UNCHANGED <<products, carts, req>>
  /\ IF NotAdmin(u)
     THEN /\ orders' = orders
          /\ resp' = Response("updateOrderStatus", 403, "Forbidden")
     ELSE IF ~OrderExists(oid)
     THEN /\ orders' = orders
          /\ resp' = Response("updateOrderStatus", 404, "NotFound")
     ELSE /\ orders' = [orders EXCEPT ![oid] = StatusOrder(@, status)]
          /\ resp' = Response("updateOrderStatus", 200, "OK")

(* -------------------------- product controller ------------------------- *)
\* prices the body of PUT /api/products/:id can carry
PriceInputs == {0 - 10, 30}

\* productSchema.price min validator (runValidators: true)
PriceValid(price) == price >= 0

\* updateProduct: PUT /api/products/:id with body {price}
UpdateProduct(u, p, price) ==
  /\ UNCHANGED <<carts, orders, req>>
  /\ IF Role(u) # "admin"
     THEN /\ products' = products
          /\ resp' = Response("updateProduct", 403, "Forbidden")
     ELSE IF ~products[p].exists
     THEN /\ products' = products
          /\ resp' = Response("updateProduct", 404, "NotFound")
     ELSE IF PriceValid(price)
     THEN /\ products' = [products EXCEPT ![p].price = price]
          /\ resp' = Response("updateProduct", 200, "OK")
     ELSE /\ products' = products
          /\ resp' = Response("updateProduct", 500, "ServerError")

\* deleteProduct: DELETE /api/products/:id
DeleteProduct(u, p) ==
  /\ UNCHANGED <<carts, orders, req>>
  /\ IF Role(u) # "admin"
     THEN /\ products' = products
          /\ resp' = Response("deleteProduct", 403, "Forbidden")
     ELSE IF ~products[p].exists
     THEN /\ products' = products
          /\ resp' = Response("deleteProduct", 404, "NotFound")
     ELSE /\ products' = [products EXCEPT ![p] = NoProduct]
          /\ resp' = Response("deleteProduct", 200, "OK")

\* reviewSchema.rating: min 1
MinRating == 1

\* reviewSchema.rating: max 5
MaxRating == 5

\* ratings a request body can carry
RatingInputs == {1, 4, 6}

\* reviewSchema validators run by product.save(): rating within 1..5 and a
\* comment present
ReviewValid(review) ==
  review.rating >= MinRating /\ review.rating <= MaxRating /\ review.comment

RECURSIVE Gcd(_, _)
Gcd(a, b) == IF b = 0 THEN a ELSE Gcd(b, a % b)

\* reviews.reduce((acc, review) => acc + review.rating, 0)
RECURSIVE SumRatings(_)
SumRatings(reviews) ==
  IF reviews = <<>> THEN 0
  ELSE SumRatings(SubSeq(reviews, 1, Len(reviews) - 1))
       + reviews[Len(reviews)].rating

\* an average that divides by the number of reviews before the push
AverageRating_OldCount(reviews) ==
  IF Len(reviews) <= 1 THEN [num |-> SumRatings(reviews), den |-> 1]
  ELSE LET g == Gcd(SumRatings(reviews), Len(reviews) - 1)
       IN [num |-> SumRatings(reviews) \div g, den |-> (Len(reviews) - 1) \div g]

\* reduce(...) / reviews.length, for a list that is not empty
AverageRating(reviews) ==
  LET g == Gcd(SumRatings(reviews), Len(reviews))
  IN [num |-> SumRatings(reviews) \div g, den |-> Len(reviews) \div g]

\* productSchema.pre('save') when reviews is modified
RatedProduct(product) ==
  IF Len(product.reviews) = 0
  THEN [product EXCEPT !.rating = NoRating, !.numReviews = 0]
  ELSE [product EXCEPT !.rating = AverageRating(product.reviews),
                       !.numReviews = Len(product.reviews)]

\* a scan whose comparison never matches
AlreadyReviewed_Never(reviews, u) == FALSE

\* product.reviews.find(r => r.user.toString() === req.user._id.toString())
AlreadyReviewed(reviews, u) ==
  \E k \in 1..Len(reviews) : reviews[k].user = u

\* createProductReview: POST /api/products/:id/reviews
CreateProductReview(u, p, rating, comment) ==
  LET product == products[p]
      review == [user |-> u, rating |-> rating, comment |-> comment]
      reviews1 == Append(product.reviews, review)
      product1 == [product EXCEPT !.reviews = reviews1,
                                  !.numReviews = Len(reviews1),
                                  !.rating = AverageRating(reviews1)]
  IN /\ UNCHANGED <<carts, orders, req, before>>
     /\ IF ~product.exists
        THEN /\ products' = products
             /\ resp' = Response("createProductReview", 404, "NotFound")
        ELSE IF AlreadyReviewed(product.reviews, u)
        THEN /\ products' = products
             /\ resp' = Response("createProductReview", 400, "Conflict")
        ELSE IF ReviewValid(review)
        THEN /\ products' = [products EXCEPT ![p] = RatedProduct(product1)]
             /\ resp' = Response("createProductReview", 201, "OK")
        ELSE /\ products' = products
             /\ resp' = Response("createProductReview", 500, "ServerError")

(* --------------------------- specifications ---------------------------- *)
CreateOrderSteps(r) ==
  \/ CreateOrderVerify(r)
  \/ CreateOrderStore(r)
  \/ CreateOrderRead(r)
  \/ CreateOrderSave(r)
  \/ CreateOrderClear(r)

CancelOrderSteps(r) ==
  \/ CancelOrderRead(r)
  \/ CancelOrderSave(r)
  \/ CancelOrderStore(r)

OrderActions ==
  \/ \E u \in Users, oid \in OrderIds : GetOrderById(u, oid)
  \/ \E u \in Users, oid \in OrderIds, pay \in PaymentIds :
       UpdateOrderToPaid(u, oid, pay)
  \/ \E u \in Users, oid \in OrderIds : UpdateOrderToDelivered(u, oid)
  \/ \E u \in Users, oid \in OrderIds, s \in Statuses : UpdateOrderStatus(u, oid, s)

\* the stock-changing routes and the routes that gate them, interleaved at
\* every database call; the requests contend for one product
RaceProducts == {"p1"}

\* cancelOrder reads the status only to tell shipped or delivered from the
\* rest: updateOrderStatus closes that gate, updateOrderToPaid reopens it
RaceStatuses == {"shipped"}

RaceItems ==
  {items \in OrderItemInputs :
     Len(items) <= 1 /\ \A k \in 1..Len(items) : items[k].product \in RaceProducts}

Next ==
  /\ \/ \E r \in Slots, u \in Shoppers, items \in RaceItems : CreateOrderStart(r, u, items)
     \/ \E r \in Slots : CreateOrderSteps(r)
     \/ \E r \in Slots, u \in Shoppers, oid \in OrderIds : CancelOrderStart(r, u, oid)
     \/ \E r \in Slots : CancelOrderSteps(r)
     \/ \E u \in Shoppers, oid \in OrderIds : UpdateOrderToPaid(u, oid, "pay1")
     \/ \E oid \in OrderIds, s \in RaceStatuses : UpdateOrderStatus("admin", oid, s)
     \/ \E u \in Shoppers, p \in RaceProducts, q \in 1..MaxQty : AddToCart(u, p, q)
  /\ UNCHANGED before
  /\ UNCHANGED <<provider, dialog>>

Spec == InitFull /\ [][Next]_vars

\* createOrder requests only, interleaved
NextCreate ==
  /\ \/ \E r \in Slots, u \in Shoppers, items \in OrderItemInputs : CreateOrderStart(r, u, items)
     \/ \E r \in Slots : CreateOrderSteps(r)
  /\ UNCHANGED before
  /\ UNCHANGED <<provider, dialog>>

SpecCreate == InitLast /\ [][NextCreate]_vars

\* cart routes and createOrder, one request at a time; before is the stock
\* the request in flight (or the last one) found
NextCart ==
  /\ \/ /\ ~Busy
        /\ before' = StockSnapshot
        /\ \/ \E u \in Shoppers, items \in OrderItemInputs : CreateOrderStart(1, u, items)
           \/ CartActions
           \/ \E u \in Users, p \in ProductIds : DeleteProduct(u, p)
     \/ /\ UNCHANGED before
        /\ CreateOrderSteps(1)
  /\ UNCHANGED <<provider, dialog>>

SpecCart == Init /\ [][NextCart]_vars

\* order routes on one order, one request at a time
NextOrders ==
  /\ \/ /\ ~Busy
        /\ before' = StockSnapshot
        /\ \/ \E u \in Shoppers, items \in OrderItemInputs :
                Len(orders) < MaxLifecycleOrders /\ CreateOrderStart(1, u, items)
           \/ \E u \in Users, oid \in OrderIds : CancelOrderStart(1, u, oid)
           \/ OrderActions
           \/ \E u \in Users, p \in ProductIds : DeleteProduct(u, p)
     \/ /\ UNCHANGED before
        /\ \/ CreateOrderSteps(1)
           \/ CancelOrderSteps(1)
  /\ UNCHANGED <<provider, dialog>>

SpecOrders == Init /\ [][NextOrders]_vars

\* unit prices a request can carry for a product: the catalog's or another
RequestPrices(p) == {CatalogPrice(p), 50}

PricedLineItems ==
  UNION {[product : {p}, quantity : 1..MaxQty, price : RequestPrices(p)] :
           p \in ProductIds}

PricedItemInputs ==
  UNION {[1..n -> PricedLineItems] : n \in 0..MaxLines}

\* createOrder with the prices the client chooses, one request at a time
NextPricing ==
  /\ \/ /\ ~Busy
        /\ before' = StockSnapshot
        /\ \E u \in Shoppers, items \in PricedItemInputs : CreateOrderStart(1, u, items)
     \/ /\ UNCHANGED before
        /\ CreateOrderSteps(1)
  /\ UNCHANGED <<provider, dialog>>

SpecPricing == Init /\ [][NextPricing]_vars

\* the review route, one request at a time, and products being deleted
NextReviews ==
  /\ \/ \E u \in Users, p \in ProductIds, rating \in RatingInputs, comment \in BOOLEAN :
          CreateProductReview(u, p, rating, comment)
     \/ /\ UNCHANGED before
        /\ \E u \in Users, p \in ProductIds : DeleteProduct(u, p)
  /\ UNCHANGED <<provider, dialog>>

SpecReviews == InitFull /\ [][NextReviews]_vars

\* the cart routes and the price of products being changed, one request at
\* a time
NextSnapshot ==
  /\ UNCHANGED before
  /\ \/ CartActions
     \/ \E u \in Users, p \in ProductIds, price \in PriceInputs :
          UpdateProduct(u, p, price)
  /\ UNCHANGED <<provider, dialog>>

SpecSnapshot == InitFull /\ [][NextSnapshot]_vars

\* requests for one unit of one product
UnitItems == {items \in OrderItemInputs : Len(items) = 1 /\ items[1].quantity = 1}

\* createOrder requests for one unit each, interleaved, with enough stock
\* for all of them
NextUnits ==
  /\ \/ \E r \in Slots, u \in Shoppers, items \in UnitItems : CreateOrderStart(r, u, items)
     \/ \E r \in Slots : CreateOrderSteps(r)
  /\ UNCHANGED before
  /\ UNCHANGED <<provider, dialog>>

SpecUnits == InitFull /\ [][NextUnits]_vars

(* ----------------------------- CartProvider ---------------------------- *)
\* quantities a caller passes to addToCart and to updateQuantity
AddQtyInputs == {1}
UpdateQtyInputs == {0, MaxUiQty}

\* carts a refetch of the cart query can bring back
FetchedCarts == {<<>>, <<[id |-> "p1", quantity |-> 1]>>}

\* prev[productId] || 0
LocalQty(cart, productId) ==
  IF productId \in DOMAIN cart THEN cart[productId] ELSE 0

\* { ...prev, [productId]: quantity }
LocalSet(cart, productId, quantity) ==
  [p \in DOMAIN cart \cup {productId} |->
     IF p = productId THEN quantity ELSE cart[p]]

\* delete newCart[productId]
LocalRemoved(cart, productId) ==
  [p \in DOMAIN cart \ {productId} |-> cart[p]]

\* previousCart.find((item) => item.id === productId)
HasItem(cart, productId) ==
  \E k \in 1..Len(cart) : cart[k].id = productId

ItemIndex(cart, productId) ==
  CHOOSE k \in 1..Len(cart) : cart[k].id = productId

CachedQty(cart, productId) ==
  IF HasItem(cart, productId) THEN cart[ItemIndex(cart, productId)].quantity ELSE 0

\* the optimistic cart of addToCart: the item's quantity raised, or a new
\* item appended
AddedCart(cart, productId, quantity) ==
  IF HasItem(cart, productId)
  THEN [cart EXCEPT ![ItemIndex(cart, productId)].quantity = @ + quantity]
  ELSE Append(cart, [id |-> productId, quantity |-> quantity])

\* the optimistic cart of updateQuantity
UpdatedCart(cart, productId, quantity) ==
  IF HasItem(cart, productId)
  THEN [cart EXCEPT ![ItemIndex(cart, productId)].quantity = quantity]
  ELSE cart

\* the optimistic cart of removeFromCart
RemovedCart(cart, productId) ==
  SelectSeq(cart, LAMBDA item : item.id # productId)

\* queryClient.invalidateQueries('cart'): the query is marked invalid, and
\* refetched when it is enabled
InvalidateQueries(query, enabled) ==
  [query EXCEPT !.invalidated = TRUE, !.fetching = @ \/ enabled]

\* queryClient.cancelQueries('cart')
CancelQueries(query) == [query EXCEPT !.fetching = FALSE]

\* queryClient.setQueryData('cart', data)
SetQueryData(query, data) == [query EXCEPT !.data = data]

\* a new mutation runs in the first free slot
FreeMutation(m) ==
  /\ mutations[m].state = "idle"
  /\ \A n \in MutationSlots : n < m => mutations[n].state # "idle"

\* onMutate and mutationFn of the four mutations.  Signed out, the local
\* cart takes the change, the mutation resolves at once and onSettled
\* invalidates the (disabled) query; signed in, the query is cancelled, the
\* cache is saved in the context and replaced by the optimistic cart, and
\* the call to the server is in flight.
Mutate(m, kind, productId, quantity, local, optimistic) ==
  /\ FreeMutation(m)
  /\ UNCHANGED <<isAuthenticated, sync>>
  /\ IF ~isAuthenticated
     THEN /\ localCart' = local
          /\ cartQuery' = InvalidateQueries(cartQuery, FALSE)
          /\ mutations' = mutations
     ELSE /\ localCart' = localCart
          /\ cartQuery' = SetQueryData(CancelQueries(cartQuery), optimistic)
          /\ mutations' = [mutations EXCEPT ![m] =
               [state |-> "pending", kind |-> kind, productId |-> productId,
                quantity |-> quantity, previousCart |-> cartQuery.data]]

\* addToCartMutation
AddToCartMutate(m, productId, quantity) ==
  /\ LocalQty(localCart, productId) + quantity <= MaxUiQty
  /\ CachedQty(cartQuery.data, productId) + quantity <= MaxUiQty
  /\ Mutate(m, "add", productId, quantity,
            LocalSet(localCart, productId, LocalQty(localCart, productId) + quantity),
            AddedCart(cartQuery.data, productId, quantity))

\* updateQuantityMutation
UpdateQuantityMutate(m, productId, quantity) ==
  Mutate(m, "update", productId, quantity,
         LocalSet(localCart, productId, quantity),
         UpdatedCart(cartQuery.data, productId, quantity))

\* removeFromCartMutation
RemoveFromCartMutate(m, productId) ==
  Mutate(m, "remove", productId, 0,
         LocalRemoved(localCart, productId),
         RemovedCart(cartQuery.data, productId))

\* clearCartMutation
ClearCartMutate(m) ==
  Mutate(m, "clear", "none", 0, EmptyLocalCart, <<>>)

\* onError: queryClient.setQueryData('cart', context.previousCart)
RolledBack(query, mutation) == SetQueryData(query, mutation.previousCart)

\* the server call of a mutation in flight resolves (ok) or rejects:
\* onError, then onSettled
MutationSettles(m, ok) ==
  /\ mutations[m].state = "pending"
  /\ mutations' = [mutations EXCEPT ![m] = IdleMutation]
  /\ cartQuery' = InvalidateQueries(IF ok THEN cartQuery
                                    ELSE RolledBack(cartQuery, mutations[m]),
                                    isAuthenticated)
  /\ UNCHANGED <<isAuthenticated, localCart, sync>>

\* cartApi.getCart of a fetch in flight resolves
QueryFetched(data) ==
  /\ cartQuery.fetching
  /\ cartQuery' = [data |-> data, invalidated |-> FALSE, fetching |-> FALSE]
  /\ UNCHANGED <<isAuthenticated, localCart, sync, mutations>>

\* isAuthenticated becomes true: the cart query is enabled and fetches, and
\* the effect sends every entry of the local cart, or invalidates the query
\* when there is none.  One syncCart runs at a time.
Login ==
  /\ ~isAuthenticated
  /\ sync.state # "waiting"
  /\ isAuthenticated' = TRUE
  /\ IF DOMAIN localCart # {}
     THEN /\ sync' = [state |-> "waiting", sent |-> localCart,
                      calls |-> [p \in DOMAIN localCart |-> "pending"]]
          /\ cartQuery' = [cartQuery EXCEPT !.fetching = TRUE]
     ELSE /\ sync' = sync
          /\ cartQuery' = InvalidateQueries(cartQuery, TRUE)
  /\ UNCHANGED <<localCart, mutations>>

\* isAuthenticated becomes false: the effect does nothing
Logout ==
  /\ isAuthenticated
  /\ isAuthenticated' = FALSE
  /\ UNCHANGED <<localCart, sync, cartQuery, mutations>>

\* a sync that stops waiting at the first call that succeeds
AllSucceeded_Any(calls) == \E p \in DOMAIN calls : calls[p] = "ok"

\* Promise.all resolves when every call has resolved
AllSucceeded(calls) == \A p \in DOMAIN calls : calls[p] = "ok"

\* one cartApi.addToCart of syncCart resolves (ok) or rejects.  The first
\* rejection rejects Promise.all: the catch logs it.  When the last call
\* resolves, Promise.all resolves: setLocalCart({}), invalidateQueries.
\* Calls that settle after a rejection change nothing.
SyncCallSettles(productId, ok) ==
  /\ productId \in DOMAIN sync.calls
  /\ sync.calls[productId] = "pending"
  /\ UNCHANGED <<isAuthenticated, mutations>>
  /\ LET calls == [sync.calls EXCEPT ![productId] = IF ok THEN "ok" ELSE "failed"]
     IN IF sync.state = "waiting" /\ ~ok
        THEN /\ sync' = [sync EXCEPT !.calls = calls, !.state = "rejected"]
             /\ UNCHANGED <<localCart, cartQuery>>
        ELSE IF sync.state = "waiting" /\ AllSucceeded(calls)
        THEN /\ sync' = [sync EXCEPT !.calls = calls, !.state = "resolved"]
             /\ localCart' = EmptyLocalCart
             /\ cartQuery' = InvalidateQueries(cartQuery, isAuthenticated)
        ELSE /\ sync' = [sync EXCEPT !.calls = calls]
             /\ UNCHANGED <<localCart, cartQuery>>

\* the four mutations, with the quantities of a given set for updateQuantity
Mutations(quantities) ==
  \/ \E m \in MutationSlots, p \in ProductIds, q \in AddQtyInputs :
       AddToCartMutate(m, p, q)
  \/ \E m \in MutationSlots, p \in ProductIds, q \in quantities :
       UpdateQuantityMutate(m, p, q)
  \/ \E m \in MutationSlots, p \in ProductIds : RemoveFromCartMutate(m, p)
  \/ \E m \in MutationSlots : ClearCartMutate(m)

\* a visitor filling the local cart, signing in and out, and the sync
NextSync ==
  /\ \/ ~isAuthenticated /\ Mutations(UpdateQtyInputs)
     \/ Login
     \/ Logout
     \/ \E p \in ProductIds, ok \in BOOLEAN : SyncCallSettles(p, ok)
     \/ \E data \in FetchedCarts : QueryFetched(data)
  /\ UNCHANGED <<products, carts, orders, req, resp, before, dialog>>

SpecSync == InitFull /\ [][NextSync]_vars

\* a signed-in user's mutations, up to two in flight, and the refetches
NextMutations ==
  /\ \/ Login
     \/ isAuthenticated /\ Mutations({MaxUiQty})
     \/ \E m \in MutationSlots, ok \in BOOLEAN : MutationSettles(m, ok)
     \/ \E data \in FetchedCarts : QueryFetched(data)
  /\ UNCHANGED <<products, carts, orders, req, resp, before, dialog>>

SpecMutations == InitFull /\ [][NextMutations]_vars

(* -------------------------- UploadFolderDialog ------------------------- *)
\* texts the user can leave in the folder path input
PathInputs == {"", " ", "/docs", " /docs ", "/data"}

\* folderPath.trim()
Trim(path) ==
  IF path = " " THEN "" ELSE IF path = " /docs " THEN "/docs" ELSE path

\* !folderPath.trim()
Blank(path) == Trim(path) = ""

\* how the awaited uploadFolder can end: with a result of one of the four
\* statuses, or by throwing
UploadResults == {"success", "partial_success", "duplicated", "failure", "thrown"}

\* a handler that closes the dialog whatever the result
ClosesDialog_Always(result) == TRUE

\* the branches that call setOpen(false)
ClosesDialog(result) == result \in {"success", "partial_success"}

\* the error the branch of a result sets (result.message and errorMessage(err)
\* are texts), or the one it leaves
ErrorAfter(result) ==
  CASE result = "duplicated" -> "duplicateFolder"
    [] result = "failure" -> "message"
    [] result = "thrown" -> "errMsg"
    [] OTHER -> error

\* the toast that replaces the loading toast
ToastAfter(result) ==
  CASE result = "success" -> "success"
    [] result = "partial_success" -> "warning"
    [] OTHER -> "error"

\* Dialog onOpenChange: the trigger asks to open a closed dialog; the close
\* button, the overlay and Escape ask to close an open one
OnOpenChange(o) ==
  /\ o # open
  /\ UNCHANGED <<isUploading, toast, upload>>
  /\ IF isUploading
     THEN UNCHANGED <<open, folderPath, error>>
     ELSE /\ open' = o
          /\ IF ~o
             THEN folderPath' = "" /\ error' = NoError
             ELSE UNCHANGED <<folderPath, error>>

\* handleFolderPathChange; the input is in the open dialog and is disabled
\* while isUploading
HandleFolderPathChange(path) ==
  /\ open
  /\ ~isUploading
  /\ folderPath' = path
  /\ error' = NoError
  /\ UNCHANGED <<open, isUploading, toast, upload>>

\* handleFolderUpload up to the await; the button is in the open dialog and
\* is disabled while isUploading || !folderPath.trim()
HandleFolderUpload ==
  /\ open
  /\ ~(isUploading \/ Blank(folderPath))
  /\ IF Blank(folderPath)
     THEN /\ error' = "emptyPath"
          /\ UNCHANGED <<open, isUploading, folderPath, toast, upload>>
     ELSE /\ isUploading' = TRUE
          /\ error' = NoError
          /\ toast' = "loading"
          /\ upload' = [status |-> "pending", path |-> folderPath]
          /\ UNCHANGED <<open, folderPath>>

\* handleFolderUpload from the await on: the branch of the result or the
\* catch, then the finally
UploadFolderSettles(result) ==
  /\ upload.status = "pending"
  /\ upload' = [upload EXCEPT !.status = result]
  /\ open' = IF ClosesDialog(result) THEN FALSE ELSE open
  /\ error' = ErrorAfter(result)
  /\ toast' = ToastAfter(result)
  /\ isUploading' = FALSE
  /\ UNCHANGED folderPath

UploadSettles == \E result \in UploadResults : UploadFolderSettles(result)

NextUpload ==
  /\ \/ \E o \in BOOLEAN : OnOpenChange(o)
     \/ \E path \in PathInputs : HandleFolderPathChange(path)
     \/ HandleFolderUpload
     \/ UploadSettles
  /\ UNCHANGED <<products, carts, orders, req, resp, before, provider>>

\* the awaited call resolves or rejects, and the rest of the handler runs
SpecUpload == InitFull /\ [][NextUpload]_vars /\ WF_dialog(UploadSettles)

TypeOK ==
  /\ \A p \in ProductIds : products[p].stock \in Int
  /\ Len(orders) <= MaxOrders

(* ------------------------------ properties ----------------------------- *)
\* units of product p in a list of order lines
RECURSIVE OrderedQty(_, _)
OrderedQty(items, p) ==
  IF items = <<>> THEN 0
  ELSE (IF items[1].product = p THEN items[1].quantity ELSE 0)
       + OrderedQty(Tail(items), p)

\* sum of price * quantity over the first k items
RECURSIVE SumOfLines(_, _)
SumOfLines(items, k) ==
  IF k = 0 THEN 0
  ELSE items[k].price * items[k].quantity + SumOfLines(items, k - 1)

\* quantity of product p held by a cart
QtyInCart(cart, p) ==
  SumOfLines([k \in 1..Len(cart.items) |->
                [price |-> 1,
                 quantity |-> IF cart.items[k].product = p
                              THEN cart.items[k].quantity ELSE 0]],
             Len(cart.items))

InCart(cart, p) == \E k \in 1..Len(cart.items) : cart.items[k].product = p

\* one order line for one unit of p
OneUnitOf(p, items) ==
  Len(items) = 1 /\ items[1].product = p /\ items[1].quantity = 1

\* C1: when two createOrder requests for one unit each run concurrently
\* against a product with one unit in stock, at most one of the two orders
\* is persisted.  Every product starts SpecCreate with one unit and only
\* createOrder runs, so two persisted one-unit orders of one product are an
\* oversell.
C1_ExactlyOneOrderPersisted ==
  \A p \in ProductIds :
    ~ \E i, j \in 1..Len(orders) :
        /\ i < j
        /\ OneUnitOf(p, orders[i].orderItems)
        /\ OneUnitOf(p, orders[j].orderItems)

\* C2: in every reachable state, under every interleaving of addToCart,
\* createOrder, updateOrderToPaid, updateOrderStatus and cancelOrder, the
\* stored stock of every product is >= 0.
C2_StockNeverNegative ==
  \A p \in ProductIds : products[p].stock >= 0

\* a createOrder lost the race for the last units: its product.save() was
\* refused by the validator, with both orders stored and the stock at 0
C2_Witness ==
  /\ resp = Response("createOrder", 500, "ServerError")
  /\ Len(orders) = 2
  /\ products["p1"].stock = 0

\* C3: after a createOrder that answers 201 with no other request running,
\* the requesting user's cart has no items and total 0, and every product's
\* stock is its stock before the request minus the quantity ordered of it.
C3_CreateOrderEffect ==
  (resp = Response("createOrder", 201, "OK")) =>
    LET order == orders[Len(orders)]
    IN /\ carts[order.user].items = <<>>
       /\ carts[order.user].totalPrice = 0
       /\ \A p \in ProductIds :
            /\ products[p].exists <=> before[p] >= 0
            /\ products[p].exists =>
                 products[p].stock = before[p] - OrderedQty(order.orderItems, p)

\* a two-unit order has just been answered 201, it took the stock from 2 to
\* 0, and the user's cart, which exists, is empty
C3_Witness ==
  /\ resp = Response("createOrder", 201, "OK")
  /\ carts[orders[Len(orders)].user].exists
  /\ \E p \in ProductIds :
       /\ OrderedQty(orders[Len(orders)].orderItems, p) = 2
       /\ before[p] = 2
       /\ products[p].stock = 0

\* C4: cancelOrder by the owner or an admin on a pending or processing order
\* is accepted, sets the status to cancelled and adds to every product's
\* stock the quantity of its lines; a line whose product no longer exists is
\* skipped and the cancel still answers 200 (one request at a time).
C4_CancelRestoresStock ==
  [][/\ \A u \in Users, oid \in OrderIds :
          ( /\ CancelOrderStart(1, u, oid)
            /\ OrderExists(oid)
            /\ orders[oid].user = u \/ u = "admin"
            /\ orders[oid].status \in {"pending", "processing"} )
          => (req'[1].pc = "ca_read" /\ req'[1].oid = oid)
     /\ ( /\ req[1].pc \in {"ca_read", "ca_save", "ca_order"}
          /\ req'[1].pc = "idle"
          /\ orders[req[1].oid].status \in {"pending", "processing"} )
        => /\ resp' = Response("cancelOrder", 200, "OK")
           /\ orders'[req[1].oid].status = "cancelled"
           /\ \A p \in ProductIds :
                /\ products'[p].exists <=> before[p] >= 0
                /\ products'[p].exists =>
                     products'[p].stock = before[p] + OrderedQty(req[1].items, p)
    ]_vars

\* a cancel has just answered 200 on an order with a line of a deleted
\* product and a two-unit line whose product got its two units back
C4_Witness ==
  /\ resp = Response("cancelOrder", 200, "OK")
  /\ orders[1].status = "cancelled"
  /\ \E k \in 1..Len(orders[1].orderItems) :
       ~products[orders[1].orderItems[k].product].exists
  /\ \E p \in ProductIds :
       /\ products[p].exists
       /\ OrderedQty(orders[1].orderItems, p) = 2
       /\ products[p].stock = before[p] + 2

\* C5: cancelOrder on a shipped or delivered order changes neither the order
\* nor any stock, whoever calls it; for the owner or an admin (the callers that
\* pass the authorization check made first) the answer is 400 InvalidState.
C5_CancelShippedRefused ==
  [][\A u \in Users, oid \in OrderIds :
       ( /\ CancelOrderStart(1, u, oid)
         /\ OrderExists(oid)
         /\ orders[oid].status \in {"shipped", "delivered"} )
       => /\ orders' = orders
          /\ products' = products
          /\ req' = req
          /\ (orders[oid].user = u \/ u = "admin")
               => resp' = Response("cancelOrder", 400, "InvalidState")
    ]_vars

\* a cancel has just been refused on a shipped order
C5_Witness ==
  /\ resp = Response("cancelOrder", 400, "InvalidState")
  /\ Len(orders) = 1
  /\ orders[1].status = "shipped"

\* C6: over any sequence of updateOrderToPaid, updateOrderToDelivered,
\* updateOrderStatus and cancelOrder, an order becomes cancelled only from
\* pending or processing, never from shipped or delivered.
C6_CancelledOnlyFromOpen ==
  [][\A oid \in 1..Len(orders) :
       (orders[oid].status # "cancelled" /\ orders'[oid].status = "cancelled")
       => orders[oid].status \in {"pending", "processing"}
    ]_vars

\* C7: addToCart answers 400 InsufficientStock and leaves the cart as it is
\* whenever the quantity already in the cart for the product plus the
\* quantity requested exceeds the product's stock.
C7_CumulativeStockCheck ==
  [][\A u \in Shoppers, p \in ProductIds, q \in 1..(MaxQty + 1) :
       ( /\ AddToCart(u, p, q)
         /\ products[p].exists
         /\ QtyInCart(carts[u], p) + q > products[p].stock )
       => /\ resp' = Response("addToCart", 400, "InsufficientStock")
          /\ carts' = carts
    ]_vars

\* C8: addToCart with a quantity above the product's stock answers 400
\* InsufficientStock, addToCart for a product that does not exist answers
\* 404 NotFound, and in both cases no cart is created or changed.
C8_AddToCartRefusals ==
  [][\A u \in Shoppers, p \in ProductIds, q \in CartQtyInputs :
       AddToCart(u, p, q) =>
         /\ ~products[p].exists =>
              /\ resp' = Response("addToCart", 404, "NotFound")
              /\ carts' = carts
         /\ (products[p].exists /\ q > products[p].stock) =>
              /\ resp' = Response("addToCart", 400, "InsufficientStock")
              /\ carts' = carts
    ]_vars

\* addToCart has just been refused for lack of stock and the user still
\* has no cart
C8_Witness ==
  /\ resp = Response("addToCart", 400, "InsufficientStock")
  /\ \A u \in Users : ~carts[u].exists

\* C9: after any sequence of addToCart, updateCartItem, removeFromCart,
\* clearCart and createOrder, every stored cart's totalPrice is the sum of
\* price * quantity over its items.
C9_CartTotal ==
  \A u \in Users :
    carts[u].totalPrice = SumOfLines(carts[u].items, Len(carts[u].items))

\* a cart with two units of p1 (20) and one of p2 (60)
C9_Witness ==
  \E u \in Users :
    /\ Len(carts[u].items) = 2
    /\ QtyInCart(carts[u], "p1") = 2
    /\ carts[u].totalPrice = 100

\* C10: after any sequence of addToCart, updateCartItem and removeFromCart
\* by a user, the cart has at most one item per product, and addToCart for a
\* product already in the cart adds the quantity to that item instead of
\* adding an item.
C10_OneItemPerProduct ==
  /\ [](\A u \in Users :
          \A i, j \in 1..Len(carts[u].items) :
            i # j => carts[u].items[i].product # carts[u].items[j].product)
  /\ [][\A u \in Shoppers, p \in ProductIds, q \in CartQtyInputs :
          ( /\ AddToCart(u, p, q)
            /\ resp' = Response("addToCart", 200, "OK")
            /\ InCart(carts[u], p) )
          => /\ Len(carts'[u].items) = Len(carts[u].items)
             /\ QtyInCart(carts'[u], p) = QtyInCart(carts[u], p) + q
       ]_vars

\* an addToCart has just merged into an item: no single request can put
\* three units of a product in a cart, the stock never exceeding two
C10_Witness ==
  /\ resp = Response("addToCart", 200, "OK")
  /\ \E u \in Users : \E k \in 1..Len(carts[u].items) :
       carts[u].items[k].quantity = MaxStock + 1

\* C11: createOrder answers 400 ValidationError for an empty list of lines,
\* 404 NotFound when the first line it cannot accept names a missing product
\* and 400 InsufficientStock when that line asks for more than the stock;
\* no step up to a rejection writes an order, a stock or a cart, and the
\* order is only stored once every line has passed (one request at a time).
C11_CreateOrderRejections ==
  [][/\ \A u \in Shoppers :
          CreateOrderStart(1, u, <<>>)
          => /\ resp' = Response("createOrder", 400, "ValidationError")
             /\ UNCHANGED <<orders, products, carts, req>>
     /\ (req[1].pc = "co_verify")
        => LET item == req[1].items[req[1].i]
               product == products[item.product]
           IN /\ UNCHANGED <<orders, products, carts>>
              /\ \A p \in ProductIds : StockSnapshot[p] = before[p]
              /\ ~product.exists
                   => /\ resp' = Response("createOrder", 404, "NotFound")
                      /\ req'[1].pc = "idle"
              /\ (product.exists /\ product.stock < item.quantity)
                   => /\ resp' = Response("createOrder", 400, "InsufficientStock")
                      /\ req'[1].pc = "idle"
              /\ (req'[1].pc = "co_create")
                   => \A k \in 1..Len(req[1].items) :
                        /\ products[req[1].items[k].product].exists
                        /\ products[req[1].items[k].product].stock
                             >= req[1].items[k].quantity
    ]_vars

\* a createOrder has just been refused for lack of stock: nothing is stored
\* and the user's cart still holds its items
C11_Witness ==
  /\ resp = Response("createOrder", 400, "InsufficientStock")
  /\ orders = <<>>
  /\ \E u \in Shoppers : carts[u].items # <<>>
  /\ \A p \in ProductIds : StockSnapshot[p] = before[p]

C13_UpdateQuantity ==
  [][\A u \in Shoppers, p \in ProductIds, q \in CartQtyInputs :
       UpdateCartItem(u, p, q) =>
         LET short == products[p].exists /\ q > products[p].stock
             absent == \/ ~products[p].exists
                       \/ ~carts[u].exists
                       \/ ~InCart(carts[u], p)
         IN /\ (q < 1)
                 => /\ resp' = Response("updateCartItem", 400, "ValidationError")
                    /\ carts' = carts
            /\ (q >= 1 /\ short)
                 => /\ resp' = Response("updateCartItem", 400, "InsufficientStock")
                    /\ carts' = carts
            /\ (q >= 1 /\ ~short /\ absent)
                 => /\ resp' = Response("updateCartItem", 404, "NotFound")
                    /\ carts' = carts
            /\ (q >= 1 /\ ~short /\ ~absent)
                 => /\ resp' = Response("updateCartItem", 200, "OK")
                    /\ \A v \in Users \ {u} : carts'[v] = carts[v]
                    /\ Len(carts'[u].items) = Len(carts[u].items)
                    /\ \A k \in 1..Len(carts[u].items) :
                         /\ carts'[u].items[k].product = carts[u].items[k].product
                         /\ carts'[u].items[k].price = carts[u].items[k].price
                         /\ carts'[u].items[k].quantity
                              = IF carts[u].items[k].product = p
                                THEN q ELSE carts[u].items[k].quantity
    ]_vars

\* an updateCartItem has just answered 200 on a cart of two items, leaving
\* one unit of the first product and two of the second
C13_Witness ==
  /\ resp = Response("updateCartItem", 200, "OK")
  /\ \E u \in Shoppers :
       /\ Len(carts[u].items) = 2
       /\ carts[u].items[1].quantity = 1
       /\ carts[u].items[2].quantity = 2

\* the items of products other than p, in their order
OthersOf(items, p) == SelectSeq(items, LAMBDA item : item.product # p)

\* C14: removeFromCart on a user's cart leaves exactly the items of the
\* other products, in their order, whether or not the product was in the
\* cart (if it was not, the items are unchanged and the answer is still 200),
\* and a second removeFromCart of the same product would store the same
\* cart again; a user without a cart gets 404 and nothing changes.
C14_RemoveIdempotent ==
  [][\A u \in Shoppers, p \in ProductIds :
       RemoveFromCart(u, p) =>
         /\ \A v \in Users \ {u} : carts'[v] = carts[v]
         /\ ~carts[u].exists
              => /\ resp' = Response("removeFromCart", 404, "NotFound")
                 /\ carts' = carts
         /\ carts[u].exists
              => /\ resp' = Response("removeFromCart", 200, "OK")
                 /\ carts'[u].exists
                 /\ carts'[u].items = OthersOf(carts[u].items, p)
                 /\ ~InCart(carts'[u], p)
                 /\ ~InCart(carts[u], p) => carts'[u].items = carts[u].items
                 /\ OthersOf(carts'[u].items, p) = carts'[u].items
                 /\ carts'[u].totalPrice
                      = SumOfLines(carts'[u].items, Len(carts'[u].items))
    ]_vars

\* a removeFromCart has just answered 200 and left the one item of the
\* other product in the cart
C14_Witness ==
  /\ resp = Response("removeFromCart", 200, "OK")
  /\ \E u \in Shoppers :
       /\ Len(carts[u].items) = 1
       /\ carts[u].items[1].product = "p2"
       /\ carts[u].items[1].quantity = 2

\* C15: updateOrderToPaid on an existing order sets isPaid, sets the status
\* to processing and stores the payment confirmation, whoever calls it and
\* whatever the status was, and changes nothing else; on a missing order it
\* answers 404 NotFound and changes nothing.
C15_MarkPaid ==
  [][\A u \in Users, oid \in OrderIds, pay \in PaymentIds :
       (resp'.op = "updateOrderToPaid" /\ UpdateOrderToPaid(u, oid, pay)) =>
         /\ UNCHANGED <<products, carts>>
         /\ ~OrderExists(oid)
              => /\ resp' = Response("updateOrderToPaid", 404, "NotFound")
                 /\ orders' = orders
         /\ OrderExists(oid)
              => /\ resp' = Response("updateOrderToPaid", 200, "OK")
                 /\ Len(orders') = Len(orders)
                 /\ \A o \in 1..Len(orders) : o # oid => orders'[o] = orders[o]
                 /\ orders'[oid].isPaid
                 /\ orders'[oid].status = "processing"
                 /\ orders'[oid].paymentResult = pay
                 /\ orders'[oid].user = orders[oid].user
                 /\ orders'[oid].orderItems = orders[oid].orderItems
                 /\ orders'[oid].isDelivered = orders[oid].isDelivered
                 /\ orders'[oid].totalPrice = orders[oid].totalPrice
    ]_vars

\* updateOrderToPaid has just answered 200 on an order that had been
\* delivered: the order is paid and back to processing
C15_Witness ==
  /\ resp = Response("updateOrderToPaid", 200, "OK")
  /\ Len(orders) = 1
  /\ orders[1].isDelivered
  /\ orders[1].isPaid
  /\ orders[1].status = "processing"
  /\ orders[1].paymentResult = "pay2"

\* C16: updateOrderToDelivered and updateOrderStatus called by a user who is
\* not an admin answer 403 Forbidden, whether or not the order exists, and
\* leave every order unchanged; called by an admin on a missing order they
\* answer 404 NotFound.
C16_AdminOnly ==
  [][/\ (resp'.op = "updateOrderToDelivered") =>
          /\ \/ /\ resp' = Response("updateOrderToDelivered", 403, "Forbidden")
                /\ UNCHANGED <<orders, products, carts>>
             \/ \A u \in Users \ {"admin"}, oid \in OrderIds :
                  ~UpdateOrderToDelivered(u, oid)
          /\ \/ /\ resp' = Response("updateOrderToDelivered", 404, "NotFound")
                /\ UNCHANGED <<orders, products, carts>>
             \/ \A oid \in OrderIds :
                  ~OrderExists(oid) => ~UpdateOrderToDelivered("admin", oid)
     /\ (resp'.op = "updateOrderStatus") =>
          /\ \/ /\ resp' = Response("updateOrderStatus", 403, "Forbidden")
                /\ UNCHANGED <<orders, products, carts>>
             \/ \A u \in Users \ {"admin"}, oid \in OrderIds, s \in Statuses :
                  ~UpdateOrderStatus(u, oid, s)
          /\ \/ /\ resp' = Response("updateOrderStatus", 404, "NotFound")
                /\ UNCHANGED <<orders, products, carts>>
             \/ \A oid \in OrderIds, s \in Statuses :
                  ~OrderExists(oid) => ~UpdateOrderStatus("admin", oid, s)
    ]_vars

\* updateOrderStatus has just been refused to a user who is not an admin,
\* with an order stored and still pending
C16_Witness ==
  /\ resp = Response("updateOrderStatus", 403, "Forbidden")
  /\ Len(orders) = 1
  /\ orders[1].status = "pending"
  /\ ~orders[1].isDelivered

\* C17: in every reachable state an order whose status is delivered has
\* isDelivered set, and no step resets isDelivered or isPaid once set.
C17_DeliveredFlag ==
  /\ [](\A oid \in 1..Len(orders) :
          orders[oid].status = "delivered" => orders[oid].isDelivered)
  /\ [][\A oid \in 1..Len(orders) :
          /\ orders[oid].isDelivered => orders'[oid].isDelivered
          /\ orders[oid].isPaid => orders'[oid].isPaid
       ]_vars

\* updateOrderStatus has just stored the status delivered on a paid order
C17_Witness ==
  /\ resp = Response("updateOrderStatus", 200, "OK")
  /\ Len(orders) = 1
  /\ orders[1].status = "delivered"
  /\ orders[1].isDelivered
  /\ orders[1].isPaid

\* C18: cancelOrder and getOrderById on an order answer 403 Forbidden to a
\* caller who is neither its owner nor an admin, and the refused cancel
\* changes no order, no stock and starts nothing.
C18_Forbidden ==
  [][\A u \in Users \ {"admin"}, oid \in OrderIds :
       (OrderExists(oid) /\ orders[oid].user # u) =>
         /\ CancelOrderStart(1, u, oid)
              => /\ resp' = Response("cancelOrder", 403, "Forbidden")
                 /\ UNCHANGED <<orders, products, carts, req>>
         /\ GetOrderById(u, oid)
              => /\ resp' = Response("getOrderById", 403, "Forbidden")
                 /\ UNCHANGED <<orders, products, carts, req>>
    ]_vars

\* a cancel has just been refused as forbidden on a pending order
C18_Witness ==
  /\ resp = Response("cancelOrder", 403, "Forbidden")
  /\ Len(orders) = 1
  /\ orders[1].status = "pending"
  /\ \A p \in ProductIds : StockSnapshot[p] = before[p]

\* sum of the ratings of the first k reviews
RECURSIVE RatingsUpTo(_, _)
RatingsUpTo(reviews, k) ==
  IF k = 0 THEN 0 ELSE reviews[k].rating + RatingsUpTo(reviews, k - 1)

\* C19: after any sequence of createProductReview calls, every product's
\* rating is the arithmetic mean of the ratings of its reviews and numReviews
\* is their number; both are 0 when there is no review.
C19_RatingIsMean ==
  \A p \in ProductIds :
    LET product == products[p]
        n == Len(product.reviews)
    IN /\ product.numReviews = n
       /\ product.rating.den > 0
       /\ product.rating.num * n = RatingsUpTo(product.reviews, n) * product.rating.den
       /\ n = 0 => product.rating.num = 0

\* a product with reviews rated 1 and 4, whose mean 5/2 is not whole
C19_Witness ==
  /\ resp = Response("createProductReview", 201, "OK")
  /\ \E p \in ProductIds :
       /\ Len(products[p].reviews) = 2
       /\ products[p].reviews[1].rating = 1
       /\ products[p].reviews[2].rating = 4
       /\ products[p].rating = [num |-> 5, den |-> 2]
       /\ products[p].numReviews = 2

\* C20: a product holds at most one review per user, and createProductReview
\* by a user who has already reviewed the product answers 400 Conflict and
\* leaves the product's reviews, rating and numReviews unchanged.
C20_OneReviewPerUser ==
  /\ [](\A p \in ProductIds :
          \A i, j \in 1..Len(products[p].reviews) :
            i # j => products[p].reviews[i].user # products[p].reviews[j].user)
  /\ [][\/ /\ resp' = Response("createProductReview", 400, "Conflict")
             /\ products' = products
          \/ \A p \in ProductIds : \A k \in 1..Len(products[p].reviews) :
               \A rating \in RatingInputs, comment \in BOOLEAN :
                 ~CreateProductReview(products[p].reviews[k].user, p, rating, comment)
       ]_vars

\* a second review by the same user has just been refused, the product
\* holding the reviews of all three users
C20_Witness ==
  /\ resp = Response("createProductReview", 400, "Conflict")
  /\ \E p \in ProductIds : Len(products[p].reviews) = Cardinality(Users)

\* C21: no step of updateOrderToPaid, updateOrderToDelivered,
\* updateOrderStatus or cancelOrder changes a stored order's user, lines,
\* itemsPrice, taxPrice, shippingPrice or totalPrice, and no step removes an
\* order: the list of stored orders only grows.
C21_OrdersImmutable ==
  [][/\ Len(orders') >= Len(orders)
     /\ \A oid \in 1..Len(orders) :
          /\ orders'[oid].user = orders[oid].user
          /\ orders'[oid].orderItems = orders[oid].orderItems
          /\ orders'[oid].itemsPrice = orders[oid].itemsPrice
          /\ orders'[oid].taxPrice = orders[oid].taxPrice
          /\ orders'[oid].shippingPrice = orders[oid].shippingPrice
          /\ orders'[oid].totalPrice = orders[oid].totalPrice
    ]_vars

\* an order that was delivered, then paid, then cancelled still has its
\* user, its lines and its amounts
C21_Witness ==
  /\ resp = Response("cancelOrder", 200, "OK")
  /\ Len(orders) = 1
  /\ orders[1].status = "cancelled"
  /\ orders[1].isPaid
  /\ orders[1].isDelivered
  /\ orders[1].user \in Shoppers
  /\ Len(orders[1].orderItems) = MaxLines
  /\ orders[1].itemsPrice = SumOfLines(orders[1].orderItems, MaxLines)
  /\ orders[1].totalPrice
       = orders[1].itemsPrice + orders[1].taxPrice + orders[1].shippingPrice

\* price of the item of product p in a cart that holds one
PriceInCart(cart, p) ==
  cart.items[CHOOSE k \in 1..Len(cart.items) : cart.items[k].product = p].price

\* C22: an item entering a cart takes the product's price of that moment,
\* and no later step changes it while the item stays in the cart: not a
\* change of the product's price, not an addToCart merging into the item,
\* not an updateCartItem.
C22_PriceSnapshot ==
  [][\A u \in Users, p \in ProductIds :
       InCart(carts'[u], p) =>
         PriceInCart(carts'[u], p) = IF InCart(carts[u], p)
                                     THEN PriceInCart(carts[u], p)
                                     ELSE products[p].price
    ]_vars

\* an addToCart has just merged into an item that keeps the price 20 it was
\* added at, the product now selling at 30
C22_Witness ==
  /\ resp = Response("addToCart", 200, "OK")
  /\ products["p1"].price = 30
  /\ \E u \in Shoppers : \E k \in 1..Len(carts[u].items) :
       /\ carts[u].items[k].product = "p1"
       /\ carts[u].items[k].price = 20
       /\ carts[u].items[k].quantity = MaxCartQty

\* C23: stock is given back at most once per order: no step of a cancelOrder
\* on an order whose status is already cancelled changes any product's stock.
C23_StockRestoredOnce ==
  [][( /\ req[1].pc \in {"ca_read", "ca_save", "ca_order"}
       /\ orders[req[1].oid].status = "cancelled" )
     => \A p \in ProductIds : products'[p].stock = products[p].stock
    ]_vars

\* C24: with one request at a time, createOrder is all or nothing, lines of
\* the same product included: a request that ends with an error has stored
\* no order, changed no stock and left the carts alone, and a request that
\* ends with 201 has deducted every line's quantity from the stock.
C24_AllOrNothing ==
  [][( /\ req[1].pc \in {"co_verify", "co_create", "co_read", "co_save", "co_clear"}
       /\ req'[1].pc = "idle" )
     => IF resp'.code = 201
        THEN \A p \in ProductIds :
               products'[p].exists
               => products'[p].stock = before[p] - OrderedQty(req[1].items, p)
        ELSE /\ req[1].pc = "co_verify"
             /\ orders' = orders
             /\ carts' = carts
             /\ \A p \in ProductIds :
                  products'[p].exists => products'[p].stock = before[p]
    ]_vars

\* C25: no stock update is lost under interleaving.  In SpecUnits every
\* stock starts at MaxStock, every request orders one unit of one product and
\* at most MaxOrders = MaxStock requests get past the empty check, so every
\* stored order's request ends with 201: once no request is in flight each
\* stock is the initial stock minus one unit per stored order of the product.
C25_NoLostUpdate ==
  ~Busy =>
    \A p \in ProductIds :
      products[p].stock
        = MaxStock - Cardinality({i \in 1..Len(orders) :
                                    orders[i].orderItems[1].product = p})

\* C26: once an order is shipped, delivered or cancelled, no step of a
\* request a non-admin user can make (updateOrderToPaid, cancelOrder) changes
\* its status.
C26_ClosedForUsers ==
  [][(\/ resp'.op = "cancelOrder"
      \/ /\ resp'.op = "updateOrderToPaid"
         /\ \E u \in Users, oid \in OrderIds, pay \in PaymentIds :
              NotAdmin(u) /\ UpdateOrderToPaid(u, oid, pay))
     => \A oid \in 1..Len(orders) :
          orders[oid].status \in {"shipped", "delivered", "cancelled"}
            => orders'[oid].status = orders[oid].status
    ]_vars

\* C27: at sign-in with a local cart that has entries, every entry is sent
\* (one pending addToCart per entry, with the entry's quantity) and the local
\* cart stays; a signed-out user's own mutations aside, the local cart
\* changes only by being emptied in the step in which the last of these calls
\* succeeds, all of them having succeeded; a step in which a call fails
\* leaves the local cart as it is.
C27_SyncCart ==
  [][/\ (~isAuthenticated /\ isAuthenticated' /\ DOMAIN localCart # {})
          => /\ sync'.state = "waiting"
             /\ sync'.sent = localCart
             /\ DOMAIN sync'.calls = DOMAIN localCart
             /\ \A p \in DOMAIN localCart : sync'.calls[p] = "pending"
             /\ localCart' = localCart
     /\ (localCart' # localCart)
          => \/ ~isAuthenticated /\ sync' = sync
             \/ /\ localCart' = EmptyLocalCart
                /\ sync.state = "waiting"
                /\ sync'.state = "resolved"
                /\ \A p \in DOMAIN sync'.sent : sync'.calls[p] = "ok"
     /\ (\E p \in DOMAIN sync.calls \cap DOMAIN sync'.calls :
           sync.calls[p] # "failed" /\ sync'.calls[p] = "failed")
          => localCart' = localCart
    ]_vars

\* a sync of two entries of which one reached the server and the other
\* failed: the user is signed in and the local cart still has both
C27_Witness ==
  /\ isAuthenticated
  /\ sync.state = "rejected"
  /\ DOMAIN sync.sent = ProductIds
  /\ \E p \in ProductIds : sync.calls[p] = "ok"
  /\ \E p \in ProductIds : sync.calls[p] = "failed"
  /\ localCart = sync.sent

\* C28: when a mutation fails while another mutation is in flight, the
\* rollback keeps what the other one put in the cache: an item another
\* pending addToCart added, and that the cache holds, is still in the cache
\* after the rollback.
C28_RollbackKeepsOthers ==
  [][\A m \in MutationSlots, n \in MutationSlots :
       (/\ m # n
        /\ mutations[m].state = "pending"
        /\ mutations[n].state = "pending"
        /\ mutations[n].kind = "add"
        /\ HasItem(cartQuery.data, mutations[n].productId)
        /\ MutationSettles(m, FALSE))
       => HasItem(cartQuery'.data, mutations[n].productId)
    ]_vars

\* C29: an upload starts only from a folder path that is not blank; while
\* isUploading, open changes only in the step that ends the upload, and only
\* when the result is success or partial_success; the step that ends an
\* upload sets isUploading to false, closes the dialog on success and
\* partial_success and otherwise leaves it open with an error set; and every
\* upload started ends: isUploading leads to ~isUploading.
C29_Upload ==
  /\ [][/\ (~isUploading /\ isUploading') => ~Blank(folderPath)
        /\ (isUploading /\ open' # open)
             => /\ upload.status = "pending"
                /\ upload'.status \in {"success", "partial_success"}
        /\ (upload.status = "pending" /\ upload'.status # "pending")
             => /\ ~isUploading'
                /\ IF upload'.status \in {"success", "partial_success"}
                   THEN ~open'
                   ELSE open /\ open' /\ error' # NoError
       ]_vars
  /\ (isUploading ~> ~isUploading)

\* an upload that threw has ended: the dialog is open and shows the error
C29_Witness ==
  /\ upload.status = "thrown"
  /\ ~isUploading
  /\ open
  /\ error = "errMsg"
  /\ toast = "error"
====
